---- MODULE Spec2Model ----
(***************************************************************************)
(* Model of the mushroom-farm monitoring dashboard (src/a.py).             *)
(*                                                                         *)
(* The script is re-executed top to bottom on every UI interaction:        *)
(* load_data() (memoized for TTL seconds), then show_filtered_data,        *)
(* show_temp_humidity and show_soil_light.  One action models one full     *)
(* run of main().  The remote feed, the date the user picks and the        *)
(* library calls that raise are the inputs of a run.                       *)
(***************************************************************************)
EXTENDS Integers, Sequences, FiniteSets, TLC

VARIABLES now, cache, feed, fetchTimes, session, ui

vars == <<now, cache, feed, fetchTimes, session, ui>>

(***************************************************************************)
(* Bounds of the model.                                                    *)
(***************************************************************************)
MaxTime == 6        \* the clock runs over 0..MaxTime seconds
MaxRows == 2        \* rows of a feed
MaxDay == 2         \* the date pickers range over days 1..MaxDay

(***************************************************************************)
(* Program constants.                                                      *)
(***************************************************************************)
TTL == 5

Range(s) == {s[i] : i \in DOMAIN s}

required_columns ==
    << "Timestamp", "Fan State", "Humidifier State", "LED Brightness",
       "Temperature", "Humidity", "Soil Moisture", "Light Intensity" >>

(***************************************************************************)
(* Data frames.  A frame has a set of column names and a sequence of rows. *)
(* Only the two columns whose values decide control flow carry a value in  *)
(* a row: Timestamp and LED Brightness.                                    *)
(***************************************************************************)
EmptyDataFrame == [columns |-> {}, rows |-> <<>>]

empty(df) == df.columns = {} \/ Len(df.rows) = 0

NaT == [date |-> 0, hour |-> 0, nat |-> TRUE]

NaN == "NaN"

\* pd.read_csv cell conversion: an empty cell is a missing value.
read_cell(text) == IF text = "" THEN NaN ELSE text

\* pd.read_csv: raises on a fetch/decoding failure, otherwise the frame.
read_csv(f) ==
    IF ~f.ok
    THEN [raised |-> TRUE, data |-> EmptyDataFrame]
    ELSE [raised |-> FALSE,
          data |-> [columns |-> f.columns,
                    rows |-> [i \in DOMAIN f.rows |->
                                [Timestamp |-> f.rows[i].Timestamp,
                                 LED |-> read_cell(f.rows[i].LED)]]]]

\* pd.to_datetime(errors='coerce') of one cell.  A cell is the sequence of
\* the numeric fields of its text: <<day>> , <<day, hour>>, or no usable
\* field at all.  Anything that is not a calendar value becomes NaT.
to_datetime(cell) ==
    IF Len(cell) = 0 \/ Len(cell) > 2 THEN NaT
    ELSE IF cell[1] < 1 \/ cell[1] > 31 THEN NaT
    ELSE IF Len(cell) = 1 THEN [date |-> cell[1], hour |-> 0, nat |-> FALSE]
    ELSE IF cell[2] < 0 \/ cell[2] > 23 THEN NaT
    ELSE [date |-> cell[1], hour |-> cell[2], nat |-> FALSE]

convert_timestamps(df) ==
    [df EXCEPT !.rows = [i \in DOMAIN df.rows |->
                            [df.rows[i] EXCEPT !.Timestamp = to_datetime(@)]]]

dropna_keep_all(df) == df

\* data.dropna(subset=['Timestamp'])
dropna(df) ==
    [df EXCEPT !.rows = SelectSeq(df.rows, LAMBDA r : ~r.Timestamp.nat)]

missing_columns_present(columns) ==
    SelectSeq(required_columns, LAMBDA col : col \in columns)

\* [col for col in required_columns if col not in data.columns]
missing_columns(columns) ==
    SelectSeq(required_columns, LAMBDA col : col \notin columns)

LoadingError == [kind |-> "loading_error", columns |-> <<>>]

MissingError(m) == [kind |-> "missing_columns", columns |-> m]

load_data_unguarded(f) ==
    LET r == read_csv(f)
        m == missing_columns(r.data.columns)
    IN  IF r.raised
        THEN [raised |-> TRUE, data |-> EmptyDataFrame, messages |-> <<>>]
        ELSE IF m # <<>>
        THEN [raised |-> FALSE, data |-> EmptyDataFrame,
              messages |-> <<MissingError(m)>>]
        ELSE [raised |-> FALSE, data |-> dropna(convert_timestamps(r.data)),
              messages |-> <<>>]

\* The body of load_data: the value it returns, the st.error calls it makes
\* and whether an exception leaves it.
load_data(f) ==
    LET r == read_csv(f)
        m == missing_columns(r.data.columns)
    IN  IF r.raised
        THEN [raised |-> FALSE, data |-> EmptyDataFrame,
              messages |-> <<LoadingError>>]
        ELSE IF m # <<>>
        THEN [raised |-> FALSE, data |-> EmptyDataFrame,
              messages |-> <<MissingError(m)>>]
        ELSE [raised |-> FALSE, data |-> dropna(convert_timestamps(r.data)),
              messages |-> <<>>]

(***************************************************************************)
(* st.cache_data(ttl=5): one entry (the function has no arguments), kept   *)
(* for TTL seconds from the moment it is stored.                           *)
(***************************************************************************)
NoResult == [raised |-> FALSE, data |-> EmptyDataFrame, messages |-> <<>>]

NoEntry == [present |-> FALSE, value |-> NoResult, storedAt |-> 0]

cache_hit_never(c, t) == FALSE

cache_hit(c, t) == c.present /\ t - c.storedAt < TTL

cache_store_successes(result, t) ==
    IF result.messages # <<>> THEN NoEntry
    ELSE [present |-> TRUE, value |-> result, storedAt |-> t]

cache_store(result, t) == [present |-> TRUE, value |-> result, storedAt |-> t]

(***************************************************************************)
(* st.session_state and the two date pickers.  A key that is not set is    *)
(* the empty sequence, a key holding date d is <<d>>.                      *)
(***************************************************************************)
NoSession == [start_date |-> <<>>, end_date |-> <<>>]

NoEdit == [start_date |-> <<>>, end_date |-> <<>>]

LessEq(a, b) == a.date < b.date \/ (a.date = b.date /\ a.hour <= b.hour)

\* data['Timestamp'].min().date()
min_date(df) ==
    LET t == CHOOSE r \in Range(df.rows) :
                 \A q \in Range(df.rows) : LessEq(r.Timestamp, q.Timestamp)
    IN  t.Timestamp.date

\* data['Timestamp'].max().date()
max_date(df) ==
    LET t == CHOOSE r \in Range(df.rows) :
                 \A q \in Range(df.rows) : LessEq(q.Timestamp, r.Timestamp)
    IN  t.Timestamp.date

init_session_always(sess, df) ==
    [start_date |-> <<min_date(df)>>, end_date |-> <<max_date(df)>>]

\* if 'start_date' not in st.session_state: ... (and the same for end_date)
init_session(sess, df) ==
    [start_date |-> IF sess.start_date = <<>> THEN <<min_date(df)>>
                    ELSE sess.start_date,
     end_date |-> IF sess.end_date = <<>> THEN <<max_date(df)>>
                  ELSE sess.end_date]

\* st.date_input(value=..., key=...): the date the user picked for this run,
\* otherwise the value it is given.
date_input(value, picked) == IF picked # <<>> THEN picked[1] ELSE value

filter_rows_by_timestamp(df, start_date, end_date) ==
    SelectSeq(df.rows, LAMBDA r :
        /\ LessEq([date |-> start_date, hour |-> 0], r.Timestamp)
        /\ LessEq(r.Timestamp, [date |-> end_date, hour |-> 0]))

\* data[(data['Timestamp'].dt.date >= start_date) &
\*      (data['Timestamp'].dt.date <= end_date)]
filter_rows(df, start_date, end_date) ==
    SelectSeq(df.rows, LAMBDA r :
        r.Timestamp.date >= start_date /\ r.Timestamp.date <= end_date)

value_counts_keep_nan(rows) ==
    LET values == {rows[i].LED : i \in DOMAIN rows}
    IN  [v \in values |-> Cardinality({i \in DOMAIN rows : rows[i].LED = v})]

\* filtered_data['LED Brightness'].value_counts(): missing values are left out.
value_counts(rows) ==
    LET values == {rows[i].LED : i \in DOMAIN rows} \ {NaN}
    IN  [v \in values |-> Cardinality({i \in DOMAIN rows : rows[i].LED = v})]

NoCounts == value_counts(<<>>)

Units == {"table", "fan_humidifier", "led", "temp_humidity", "soil_light"}

\* One guarded chart block: the chart, or the st.error of its except branch.
guarded(unit, ok) == IF ok THEN {"chart:" \o unit} ELSE {"error:" \o unit}

filtered_never_empty(rows) == FALSE

\* filtered_data.empty
filtered_empty(rows) == Len(rows) = 0

\* show_filtered_data: what it leaves in the session, the values of its
\* locals, what it puts on the page and whether an exception leaves it.
show_filtered_data(df, sess, edit, fail) ==
    IF empty(df)
    THEN [raised |-> FALSE, session |-> sess, start_date |-> <<>>,
          end_date |-> <<>>, filtered |-> <<>>, led_count |-> NoCounts,
          shown |-> {"error:no_data_loaded"}, failed |-> {}]
    ELSE
      LET s1 == init_session(sess, df)
          start_date == date_input(s1.start_date[1], edit.start_date)
          end_date == date_input(s1.end_date[1], edit.end_date)
          filtered_data == filter_rows(df, start_date, end_date)
          base == [raised |-> FALSE,
                   session |-> [start_date |-> <<start_date>>,
                                end_date |-> <<end_date>>],
                   start_date |-> <<start_date>>, end_date |-> <<end_date>>,
                   filtered |-> filtered_data, led_count |-> NoCounts,
                   shown |-> {"date_input"}, failed |-> {}]
      IN  IF filtered_empty(filtered_data)
          THEN [base EXCEPT !.shown = {"date_input", "warning:no_data_range"}]
          ELSE IF "table" \in fail
          THEN [base EXCEPT !.raised = TRUE, !.failed = {"table"}]
          ELSE [base EXCEPT
                  !.shown = {"date_input", "table"}
                     \cup guarded("fan_humidifier", "fan_humidifier" \notin fail)
                     \cup guarded("led", "led" \notin fail),
                  !.led_count = IF "led" \in fail THEN NoCounts
                                ELSE value_counts(filtered_data),
                  !.failed = fail \cap {"fan_humidifier", "led"}]

\* show_temp_humidity: plotting raises when a column is absent (the empty
\* frame has none) or when the plotting library does.
show_temp_humidity(df, fail) ==
    guarded("temp_humidity",
            {"Timestamp", "Temperature", "Humidity"} \subseteq df.columns
            /\ "temp_humidity" \notin fail)

show_soil_light(df, fail) ==
    guarded("soil_light",
            {"Timestamp", "Soil Moisture", "Light Intensity"} \subseteq df.columns
            /\ "soil_light" \notin fail)

load_shown(result) == {"error:" \o result.messages[i].kind : i \in DOMAIN result.messages}

\* main(): load_data's result handed to the three rendering functions.  An
\* exception that leaves a function ends the run there.
main(result, sess, edit, fail) ==
    LET blank == [exception |-> TRUE, session |-> sess, data |-> EmptyDataFrame,
                  start_date |-> <<>>, end_date |-> <<>>, filtered |-> <<>>,
                  led_count |-> NoCounts, shown |-> {}, failed |-> {}]
        series == fail \cap {"temp_humidity", "soil_light"}
        page(v) ==
             [exception |-> v.raised,
              session |-> v.session,
              data |-> result.data,
              start_date |-> v.start_date,
              end_date |-> v.end_date,
              filtered |-> v.filtered,
              led_count |-> v.led_count,
              shown |-> IF v.raised THEN load_shown(result) \cup v.shown
                        ELSE load_shown(result) \cup v.shown
                             \cup show_temp_humidity(result.data, fail)
                             \cup show_soil_light(result.data, fail),
              failed |-> IF v.raised \/ result.data.columns = {} THEN v.failed
                         ELSE v.failed \cup series]
    IN  IF result.raised THEN blank
        ELSE CHOOSE p \in {page(v) :
                 v \in {show_filtered_data(result.data, sess, edit, fail)}} : TRUE

(***************************************************************************)
(* Inputs of a run.                                                        *)
(***************************************************************************)
Required == Range(required_columns)

Cells == {<<>>, <<1>>, <<2, 23>>, <<3, 24>>}

LEDs == {"", "0", "255"}

RowKinds == [Timestamp : Cells, LED : LEDs]

RowSeqs == UNION {[1..n -> RowKinds] : n \in 0..MaxRows}

Row(cell, led) == [Timestamp |-> cell, LED |-> led]

Sheet(columns, rows) == [ok |-> TRUE, columns |-> columns, rows |-> rows]

FetchFailure == [ok |-> FALSE, columns |-> {}, rows |-> <<>>]

SheetA == <<Row(<<1>>, "0"), Row(<<2, 23>>, "255")>>

SheetB == <<Row(<<3, 12>>, "")>>

SheetC == <<Row(<<>>, "0"), Row(<<2, 7>>, "0")>>

\* The feeds of the full specification: a failing fetch, a feed with a
\* column missing, three different sheets and one without a usable row.
Feeds ==
    {FetchFailure,
     Sheet(Required \ {"Humidity"}, SheetA),
     Sheet(Required, SheetA), Sheet(Required \cup {"Extra"}, SheetB),
     Sheet(Required, SheetC), Sheet(Required, <<Row(<<>>, "0")>>)}

\* The feeds of the one-window specification: every header over the eight
\* required columns and one more, every sheet of at most MaxRows rows.
WideFeeds ==
    {FetchFailure}
    \cup {Sheet(h, r) : h \in SUBSET (Required \cup {"Extra"}) \ {Required},
                        r \in {<<>>, SheetA}}
    \cup {Sheet(Required, r) : r \in RowSeqs}

Days == 1..MaxDay

\* The library calls a run over frame df reaches: none that can raise on
\* its own for the column-less frame (both time-series functions raise on
\* the absent column), the two time-series plots for a frame without rows,
\* every unit otherwise.
Reached(df) ==
    IF df.columns = {} THEN {}
    ELSE IF empty(df) THEN {"temp_humidity", "soil_light"}
    ELSE Units

\* At most one library call raises in a run.
FailureSets(df) == {{}} \cup {{u} : u \in Reached(df)}

(***************************************************************************)
(* The state machine.                                                      *)
(***************************************************************************)
NoPage ==
    [trigger |-> "none", picked |-> NoEdit, fetched |-> FALSE,
     exception |-> FALSE, data |-> EmptyDataFrame,
     start_date |-> <<>>, end_date |-> <<>>, filtered |-> <<>>,
     led_count |-> NoCounts, shown |-> {}, failed |-> {}]

Init ==
    /\ now = 0
    /\ cache = NoEntry
    /\ feed = FetchFailure
    /\ fetchTimes = <<>>
    /\ session = NoSession
    /\ ui = NoPage

\* One run of the script: load_data() through the cache, then main()'s
\* rendering calls.  f is what the remote feed serves if it is fetched;
\* failures tells whether a library call of the run may raise.
Main(kind, edit, f, failures) ==
    \E hit \in {cache_hit(cache, now)} :
    \E result \in {IF hit THEN cache.value ELSE load_data(f)} :
    \E fail \in (IF failures THEN FailureSets(result.data) ELSE {{}}) :
    \E page \in {main(result, session, edit, fail)} :
        /\ now' = now
        /\ cache' = IF hit \/ result.raised THEN cache
                    ELSE cache_store(result, now)
        /\ feed' = IF hit THEN feed ELSE f
        /\ fetchTimes' = IF hit THEN fetchTimes ELSE Append(fetchTimes, now)
        /\ session' = page.session
        /\ ui' = [trigger |-> kind, picked |-> edit, fetched |-> ~hit,
                  exception |-> page.exception, data |-> page.data,
                  start_date |-> page.start_date, end_date |-> page.end_date,
                  filtered |-> page.filtered, led_count |-> page.led_count,
                  shown |-> page.shown, failed |-> page.failed]

Served(F) == IF cache_hit(cache, now) THEN {feed} ELSE F

Tick ==
    /\ now < MaxTime
    /\ now' = now + 1
    /\ UNCHANGED <<cache, feed, fetchTimes, session, ui>>

\* A page load or any interaction other than the button and the pickers:
\* the else branch of the script's last statement.
Rerun == \E f \in Served(Feeds) : Main("rerun", NoEdit, f, TRUE)

\* A click on "Refresh Data": the if branch, the same main().
RefreshClick == \E f \in Served(Feeds) : Main("refresh", NoEdit, f, TRUE)

EditStartDate ==
    /\ "date_input" \in ui.shown
    /\ \E d \in Days \ Range(session.start_date), f \in Served(Feeds) :
          Main("edit", [NoEdit EXCEPT !.start_date = <<d>>], f, TRUE)

EditEndDate ==
    /\ "date_input" \in ui.shown
    /\ \E d \in Days \ Range(session.end_date), f \in Served(Feeds) :
          Main("edit", [NoEdit EXCEPT !.end_date = <<d>>], f, TRUE)

Next == Tick \/ Rerun \/ RefreshClick \/ EditStartDate \/ EditEndDate

Spec == Init /\ [][Next]_vars

(***************************************************************************)
(* One cache window: the first load of any feed, then date edits served    *)
(* from the cache, every library call succeeding.                          *)
(***************************************************************************)
FirstLoad ==
    /\ ~cache.present
    /\ \E f \in WideFeeds : Main("rerun", NoEdit, f, FALSE)

PickStartDate ==
    /\ "date_input" \in ui.shown
    /\ cache_hit(cache, now)
    /\ \E d \in Days \ Range(session.start_date) :
          Main("edit", [NoEdit EXCEPT !.start_date = <<d>>], feed, FALSE)

PickEndDate ==
    /\ "date_input" \in ui.shown
    /\ cache_hit(cache, now)
    /\ \E d \in Days \ Range(session.end_date) :
          Main("edit", [NoEdit EXCEPT !.end_date = <<d>>], feed, FALSE)

NextWindow == FirstLoad \/ PickStartDate \/ PickEndDate

SpecWindow == Init /\ [][NextWindow]_vars

(***************************************************************************)
(* Properties.                                                             *)
(***************************************************************************)
Loaded == cache.present

HeaderComplete == Required \subseteq feed.columns

Parseable(cell) ==
    \/ Len(cell) = 1 /\ cell[1] \in 1..31
    \/ Len(cell) = 2 /\ cell[1] \in 1..31 /\ cell[2] \in 0..23

LoadErrors == {"error:loading_error", "error:missing_columns"}

\* C1: a feed whose header lacks a required column loads as the empty table,
\* and the one error message of the load lists exactly the required columns
\* the header lacks, each once.
C1_MissingColumnsReported ==
    (Loaded /\ feed.ok /\ ~HeaderComplete) =>
        /\ cache.value.data = EmptyDataFrame
        /\ ui.data = EmptyDataFrame
        /\ Len(cache.value.messages) = 1
        /\ cache.value.messages[1].kind = "missing_columns"
        /\ Range(cache.value.messages[1].columns) = Required \ feed.columns
        /\ Len(cache.value.messages[1].columns)
              = Cardinality(Required \ feed.columns)
        /\ "error:missing_columns" \in ui.shown

C1_Witness ==
    /\ Loaded /\ feed.ok /\ feed.rows # <<>>
    /\ "Extra" \in feed.columns
    /\ Required \ feed.columns = {"Timestamp", "Humidity"}
    /\ ui.data = EmptyDataFrame

\* C7: of a feed with all required columns, the loaded table holds the rows
\* whose timestamp parses, in order and converted, no row whose timestamp
\* does not parse, and the load emits no error message.
C7_OnlyParsedRows ==
    (Loaded /\ feed.ok /\ HeaderComplete) =>
        LET raw == feed.rows
            out == cache.value.data.rows
            kept == {i \in DOMAIN raw : Parseable(raw[i].Timestamp)}
        IN  /\ Len(out) = Cardinality(kept)
            /\ \A j \in DOMAIN out : ~out[j].Timestamp.nat
            /\ \A i \in kept : \E j \in DOMAIN out :
                   /\ out[j].Timestamp.date = raw[i].Timestamp[1]
                   /\ out[j].LED = read_cell(raw[i].LED)
                   /\ j = Cardinality({k \in kept : k <= i})
            /\ cache.value.messages = <<>>
            /\ ui.shown \cap LoadErrors = {}

C7_Witness ==
    /\ Loaded /\ feed.ok /\ HeaderComplete
    /\ Len(feed.rows) = 2
    /\ ~Parseable(feed.rows[1].Timestamp)
    /\ Parseable(feed.rows[2].Timestamp)
    /\ Len(ui.data.rows) = 1

RECURSIVE InRange(_, _, _)
InRange(rows, d0, d1) ==
    IF rows = <<>> THEN <<>>
    ELSE (IF d0 <= Head(rows).Timestamp.date /\ Head(rows).Timestamp.date <= d1
          THEN <<Head(rows)>> ELSE <<>>) \o InRange(Tail(rows), d0, d1)

FilterReached == ui.start_date # <<>>

\* C9: the filtered table is the loaded rows whose date d satisfies
\* start_date <= d <= end_date, in order and unchanged, whatever their hour.
C9_FilterInclusive ==
    FilterReached =>
        ui.filtered = InRange(ui.data.rows, ui.start_date[1], ui.end_date[1])

C9_Witness ==
    /\ FilterReached
    /\ Len(ui.data.rows) = 2 /\ Len(ui.filtered) = 1
    /\ ui.start_date = ui.end_date
    /\ ui.filtered[1].Timestamp.date = ui.end_date[1]
    /\ ui.filtered[1].Timestamp.hour = 23
    /\ ui.data.rows[1].Timestamp.date < ui.start_date[1]

RECURSIVE SumCounts(_, _)
SumCounts(counts, S) ==
    IF S = {} THEN 0
    ELSE LET v == CHOOSE x \in S : TRUE
         IN  counts[v] + SumCounts(counts, S \ {v})

Total(counts) == SumCounts(counts, DOMAIN counts)

NonNull(rows) == Cardinality({i \in DOMAIN rows : rows[i].LED # NaN})

\* C6 as stated: the counts of the distribution chart sum to the number of
\* rows of the filtered table.
C6_CountsSumToRows ==
    "chart:led" \in ui.shown => Total(ui.led_count) = Len(ui.filtered)

\* C6 amended: the counts of the distribution chart sum to the number of
\* rows of the filtered table whose led_brightness is not missing, and
\* count each of those rows under its own value.
C6_CountsSumToNonNullRows ==
    "chart:led" \in ui.shown =>
        /\ Total(ui.led_count) = NonNull(ui.filtered)
        /\ \A i \in DOMAIN ui.filtered :
               ui.filtered[i].LED # NaN => ui.filtered[i].LED \in DOMAIN ui.led_count

C6_Witness ==
    /\ "chart:led" \in ui.shown
    /\ Len(ui.filtered) = 2
    /\ NonNull(ui.filtered) = 1
    /\ Total(ui.led_count) = 1

Charts == {"table", "chart:fan_humidifier", "chart:led",
           "error:fan_humidifier", "error:led"}

NoRowBetween(rows, d0, d1) ==
    \A i \in DOMAIN rows :
        ~(d0 <= rows[i].Timestamp.date /\ rows[i].Timestamp.date <= d1)

EmptyRangeNotice ==
    /\ ui.filtered = <<>>
    /\ "warning:no_data_range" \in ui.shown
    /\ ui.shown \cap Charts = {}
    /\ ui.led_count = NoCounts
    /\ ~ui.exception

\* C5 as stated: in every redraw where the session's start_date is after
\* its end_date, or no loaded row is dated within the two, the filtered
\* table is empty, the empty-range notice is shown, none of the table view,
\* the actuator chart and the distribution chart is built, and no exception
\* leaves the redraw.
C5_EmptyRangeEveryRedraw ==
    (/\ ui.trigger # "none"
     /\ session.start_date # <<>> /\ session.end_date # <<>>
     /\ \/ session.start_date[1] > session.end_date[1]
        \/ NoRowBetween(ui.data.rows, session.start_date[1], session.end_date[1]))
    => EmptyRangeNotice

\* C5 amended: the same, in every redraw whose loaded table is not empty
\* (the redraws that reach the date pickers and the filter).
C5_EmptyRangeOfLoadedTable ==
    (/\ ~empty(ui.data)
     /\ \/ ui.start_date[1] > ui.end_date[1]
        \/ NoRowBetween(ui.data.rows, ui.start_date[1], ui.end_date[1]))
    => EmptyRangeNotice

C5_Witness ==
    /\ ~empty(ui.data)
    /\ ui.start_date[1] > ui.end_date[1]
    /\ \E i \in DOMAIN ui.data.rows :
          ui.data.rows[i].Timestamp.date = ui.end_date[1]
    /\ "warning:no_data_range" \in ui.shown
    /\ "chart:temp_humidity" \in ui.shown

Rendered(unit) ==
    IF unit = "table" THEN "table" \in ui.shown
    ELSE ("chart:" \o unit) \in ui.shown

\* C3: in every redraw over a non-empty filtered table, whichever of the
\* presentation units fails to be built, every other unit is rendered and
\* the failing one is replaced by its own message.
C3_UnitsIsolated ==
    ui.filtered # <<>> =>
        \A u \in ui.failed :
            /\ \A v \in Units \ {u} : Rendered(v)
            /\ ("error:" \o u) \in ui.shown

\* C8: a fetch that fails is caught inside load_data: the load returns the
\* empty table with exactly one error message, no exception reaches main,
\* and the redraw goes on through the three rendering functions.
C8_FetchFailureCaught ==
    (ui.fetched /\ ~feed.ok) =>
        /\ ~ui.exception
        /\ ui.data = EmptyDataFrame
        /\ cache.present /\ cache.value.messages = <<LoadingError>>
        /\ {"error:loading_error", "error:no_data_loaded",
            "error:temp_humidity", "error:soil_light"} = ui.shown

C8_Witness ==
    /\ ui.fetched /\ ~feed.ok
    /\ Len(fetchTimes) = 2
    /\ session.start_date # <<>>
    /\ "error:soil_light" \in ui.shown

InWindow == cache.present /\ now - cache.storedAt < TTL

\* A step that is a run of the script (the clock does not advance in it).
Call == now' = now

\* C2: a call within TTL seconds of the stored fetch returns the stored
\* result and fetches nothing; a call after the window has elapsed (or with
\* nothing stored) fetches; so every fetch is at least TTL seconds after
\* every earlier one.
C2_OneFetchPerWindow ==
    [][Call =>
         /\ InWindow =>
               /\ fetchTimes' = fetchTimes
               /\ cache' = cache
               /\ ~ui'.fetched
               /\ ui'.data = cache.value.data
               /\ ui'.shown \cap LoadErrors = load_shown(cache.value)
         /\ ~InWindow =>
               /\ fetchTimes' = Append(fetchTimes, now)
               /\ ui'.fetched
               /\ cache'.present /\ cache'.storedAt = now
               /\ \A i \in DOMAIN fetchTimes : now - fetchTimes[i] >= TTL
      ]_vars

C2_Witness ==
    /\ fetchTimes = <<0, TTL>>
    /\ now > TTL
    /\ ~ui.fetched
    /\ ui.trigger = "rerun"
    /\ ~empty(ui.data)

LastFetchFailed ==
    /\ fetchTimes # <<>>
    /\ ~feed.ok \/ ~HeaderComplete

SinceLastFetch == now - fetchTimes[Len(fetchTimes)]

\* C10: after a load that ended in a fetch error or a missing-column error,
\* every run within TTL seconds of it, a click on "Refresh Data" included,
\* gets the same empty table and the same message without a fetch; a
\* refresh fetches again once the window has elapsed.
C10_FailureMemoized ==
    [][(Call /\ LastFetchFailed) =>
         /\ SinceLastFetch < TTL =>
               /\ fetchTimes' = fetchTimes
               /\ ~ui'.fetched
               /\ ui'.data = EmptyDataFrame
               /\ ui'.shown \cap LoadErrors = load_shown(cache.value)
               /\ ui'.shown \cap LoadErrors # {}
         /\ (SinceLastFetch >= TTL /\ ui'.trigger = "refresh") =>
               /\ ui'.fetched
               /\ fetchTimes' = Append(fetchTimes, now)
      ]_vars

C10_Witness ==
    /\ LastFetchFailed
    /\ feed.ok
    /\ SinceLastFetch > 0
    /\ ui.trigger = "refresh"
    /\ ~ui.fetched
    /\ "error:missing_columns" \in ui.shown

Dates(df) == {df.rows[i].Timestamp.date : i \in DOMAIN df.rows}

Least(S) == CHOOSE d \in S : \A e \in S : d <= e

Greatest(S) == CHOOSE d \in S : \A e \in S : d >= e

====
